---------------------------- MODULE Spec2Model ----------------------------
(***************************************************************************)
(* A model of utils/helpers/NGLView.py (talktorial T018): the four         *)
(* notebook helpers protein(), binding_site(), docking() and               *)
(* interactions(), the viewer widget they drive and the selection list     *)
(* whose change notifications update the view.                             *)
(*                                                                         *)
(* One behaviour is one call of one helper (variable fn) on one set of     *)
(* arguments (variable args), followed, for docking() and interactions(),  *)
(* by user clicks on the selection list.  A click changes the selector and *)
(* queues the trait notifications it causes (label, value, index); each    *)
(* notification is then delivered to the registered handler.               *)
(*                                                                         *)
(* Python values that may be None are tuples: None is <<>>, the integer k  *)
(* is <<k>>.  Python lists are sequences read with a 0-based index         *)
(* through PyGet.  A formatted string is the tuple of its parts.           *)
(***************************************************************************)
EXTENDS Integers, Sequences, FiniteSets, TLC

VARIABLES
    fn,        \* the helper that is called
    args,      \* its arguments
    pc,        \* "called": not yet run, "returned", "raised"
    exc,       \* the exception the call or the last view update ended in
    viewer,    \* the NGLWidget of protein(), binding_site() and docking()
    widgets,   \* interactions(): every NGLWidget the handler created
    app,       \* interactions(): the AppLayout (its center pane)
    events,    \* interactions(): widget creations and closes, in order
    selector,  \* the Select widget: options and selected value
    pending,   \* trait notifications not yet delivered to the handler
    clicks,    \* user clicks so far
    updates    \* view updates caused by the last click

vars == <<fn, args, pc, exc, viewer, widgets, app, events, selector, pending,
          clicks, updates>>

-----------------------------------------------------------------------------
(* Bounds of the model *)

MaxPoses == 3

MaxClicks == 3

MaxDefaultReprs == 2

-----------------------------------------------------------------------------
(* Python values *)

PyNone == <<>>

PyInt(k) == <<k>>

\* list[k] of a Python list: a 0-based index, negative indices count from the end
PyInRange(list, k) == k >= 0 - Len(list) /\ k < Len(list)

PyGet(list, k) == IF k >= 0 THEN list[k + 1] ELSE list[Len(list) + k + 1]

\* the names a function of the module can resolve: its imports and its defs
ModuleGlobals ==
    {"time", "nv", "AppLayout", "Layout", "Select", "Button", "mpl", "plt",
     "colors", "np", "pd", "protein", "binding_site", "docking", "interactions"}

NoExc == "none"

-----------------------------------------------------------------------------
(* The viewer widget *)

\* a representation: its type, its selection and the numbers the selection
\* names (residue numbers, or a component index and a radius)
Repr(type, sele, of) == [type |-> type, sele |-> sele, of |-> of, params |-> ""]

\* the representations NGL gives a component loaded with its default
\* representation; how many depends on the structure
DefaultReprs(k) == [i \in 1..k |-> Repr("default", "default", <<i>>)]

Component(file, ext, reprs) ==
    [file |-> file, ext |-> ext, visible |-> TRUE, labels |-> <<>>, reprs |-> reprs]

NGLWidget(height) ==
    [height |-> height, open |-> TRUE, comps |-> <<>>, shapes |-> <<>>,
     centered |-> <<>>, image |-> <<>>]

NoViewer == [height |-> "", open |-> FALSE, comps |-> <<>>, shapes |-> <<>>,
             centered |-> <<>>, image |-> <<>>]

add_component(v, file, ext, reprs) ==
    [v EXCEPT !.comps = Append(@, Component(file, ext, reprs))]

\* component i (0-based) gets a further representation
add_representation(v, i, type, sele, of) ==
    [v EXCEPT !.comps[i + 1].reprs = Append(@, Repr(type, sele, of))]

add_label(v, i, text) ==
    [v EXCEPT !.comps[i + 1].labels = Append(@, text)]

center(v, what) == [v EXCEPT !.centered = what]

-----------------------------------------------------------------------------
(* protein() and binding_site() *)

\* lines 45-50: the structure is fetched by its PDB code and shown with the
\* default representation, or read from a local file and shown as a cartoon
protein_load(input_type, input_value, nDefault) ==
    IF input_type = "pdb_code"
    THEN add_component(NGLWidget("600px"), <<"pdbid", input_value>>, "pdb",
                       DefaultReprs(nDefault))
    ELSE add_representation(
             add_component(NGLWidget("600px"), <<"file", input_value>>,
                           input_type, <<>>),
             0, "cartoon", "protein", <<>>)

\* the image written when no file name is given
protein_image_inverted(v, output_image_filename) ==
    IF output_image_filename = PyNone
    THEN [v EXCEPT !.image = <<<<"render_image">>, <<"_display_image">>,
                               <<"download_image", "None">>>>]
    ELSE v

\* lines 55-58
protein_image(v, output_image_filename) ==
    IF output_image_filename /= PyNone
    THEN [v EXCEPT !.image = <<<<"render_image">>, <<"_display_image">>,
                               <<"download_image", output_image_filename[1]>>>>]
    ELSE v

\* the viewer protein() returns
protein_viewer(input_type, input_value, nDefault, output_image_filename) ==
    protein_image(
        center(add_representation(protein_load(input_type, input_value, nDefault),
                                  0, "ball+stick", "hetero and not water", <<>>),
               <<"protein">>),
        output_image_filename)

\* binding_site() reaches protein() through the name NGLView, which it looks
\* up in the globals of its module
binding_site_result(a) ==
    IF "NGLView" \notin ModuleGlobals
    THEN [exc |-> "NameError", viewer |-> NoViewer]
    ELSE [exc |-> NoExc,
          viewer |-> center(add_component(
                                protein_viewer(a.input_type, a.input_value,
                                               a.nDefault, PyNone),
                                <<"file", a.ccp4_filepath>>, "ccp4", DefaultReprs(1)),
                            <<"*">>)]

-----------------------------------------------------------------------------
(* The selection list and its change notifications *)

\* lines 158-163 and 215-220: the options are (label, value) pairs, the values
\* numbered from 1; the widget starts with its first option selected
Options(labels) == [i \in 1..Len(labels) |-> <<labels[i], i>>]

Rows(filepaths) == IF Len(filepaths) <= 52 THEN Len(filepaths) ELSE 52

Select(options, rows) ==
    [options |-> options, rows |-> rows,
     index |-> IF Len(options) > 0 THEN PyInt(0) ELSE PyNone,
     label |-> IF Len(options) > 0 THEN options[1][1] ELSE PyNone,
     value |-> IF Len(options) > 0 THEN PyInt(options[1][2]) ELSE PyNone]

NoSelector == [options |-> <<>>, rows |-> 0, index |-> PyNone, label |-> PyNone,
               value |-> PyNone]

Change(name, new, old) == [name |-> name, new |-> new, old |-> old]

\* the user clicks entry i (1-based position) of the list
Clicked(sel, i) ==
    [sel EXCEPT !.index = PyInt(i - 1), !.label = sel.options[i][1],
                !.value = PyInt(sel.options[i][2])]

\* the notifications of one click, in the order the observers of all traits
\* receive them
Notifications(old, new) ==
    <<Change("label", new.label, old.label),
      Change("value", new.value, old.value),
      Change("index", new.index, old.index)>>

\* the guard without its test of the trait's name
EffectiveAnyTrait(change) == change["new"] /= change["old"]

\* lines 173 and 250: update only if the user clicked on a different entry
Effective(change) == change["name"] = "value" /\ change["new"] /= change["old"]

IsInt(x) == Len(x) = 1

-----------------------------------------------------------------------------
(* docking() *)

\* lines 146-148 and 242-244
AffinityLabels(affinities) ==
    [i \in 1..Len(affinities) |-> <<affinities[i], " kcal/mol">>]

Min(a, b) == IF a <= b THEN a ELSE b

\* lines 149-153: one component per (pose file, affinity label) pair of the zip
RECURSIVE add_poses(_, _, _, _, _)
add_poses(v, filepaths, labels, ext, i) ==
    IF i > Min(Len(filepaths), Len(labels))
    THEN v
    ELSE add_poses(add_label(add_component(v, filepaths[i], ext, DefaultReprs(1)),
                             Len(v.comps), labels[i]),
                   filepaths, labels, ext, i + 1)

\* lines 136-153
docking_viewer(a) ==
    add_poses(add_component(NGLWidget("860px"), a.protein_filepath,
                            a.protein_file_extension, DefaultReprs(a.nDefault)),
              a.list_docking_poses_filepaths,
              AffinityLabels(a.list_docking_poses_affinities),
              a.docking_poses_file_extension, 1)

\* viewer.hide(indices): the named components that exist become invisible
hide(v, indices) ==
    [v EXCEPT !.comps = [i \in 1..Len(v.comps) |->
        IF (i - 1) \in indices THEN [v.comps[i] EXCEPT !.visible = FALSE]
        ELSE v.comps[i]]]

show(v, i) == [v EXCEPT !.comps[i + 1].visible = TRUE]

\* lines 124-132, the script run in the front end: the last representation of
\* the protein is removed, a licorice of the residues around the pose is added
RESIDUES_AROUND(v, index, radius) ==
    LET reprList == v.comps[1].reprs
        removed == IF Len(reprList) > 0
                   THEN SubSeq(reprList, 1, Len(reprList) - 1)
                   ELSE reprList
    IN  [v EXCEPT !.comps[1].reprs =
            Append(removed, Repr("licorice", "around", <<index, radius>>))]

\* the component numbered from the list position of the option
component_index_zero_based(new) == new[1] - 1

\* line 177: the attribute component_<new> of the viewer
component_index(new) == new[1]

\* lines 171-181: the handler of docking(), on the viewer v
docking_on_selection_change(v, a, change) ==
    IF ~Effective(change)
    THEN [viewer |-> v, exc |-> NoExc, updated |-> FALSE]
    ELSE LET hidden == hide(v, 1..Len(a.list_docking_poses_filepaths))
         IN  IF ~IsInt(change["new"])
                \/ component_index(change["new"]) \notin 0..(Len(v.comps) - 1)
             THEN [viewer |-> hidden, exc |-> "AttributeError", updated |-> TRUE]
             ELSE LET k == component_index(change["new"])
                  IN  [viewer |-> RESIDUES_AROUND(
                                      center(show(hidden, k), <<"component", k>>),
                                      change["new"][1], 6),
                       exc |-> NoExc, updated |-> TRUE]

-----------------------------------------------------------------------------
(* interactions() *)

\* lines 200-209, the color components in hundredths
color_map ==
    [t \in {"hydrophobic", "hbond", "waterbridge", "saltbridge", "pistacking",
            "pication", "halogen", "metal"} |->
        CASE t = "hydrophobic" -> <<90, 10, 29>>
          [] t = "hbond"       -> <<26, 83, 96>>
          [] t = "waterbridge" -> <<100, 88, 10>>
          [] t = "saltbridge"  -> <<67, 100, 76>>
          [] t = "pistacking"  -> <<75, 94, 27>>
          [] t = "pication"    -> <<27, 60, 56>>
          [] t = "halogen"     -> <<94, 20, 90>>
          [] t = "metal"       -> <<90, 75, 100>>]

HasColumn(columns, name) == \E i \in 1..Len(columns) : columns[i] = name

\* interaction[name] of a row of the data frame built from the records with
\* the header as its columns (lines 286-288)
Field(columns, row, name) ==
    row[CHOOSE i \in 1..Len(columns) : columns[i] = name]

\* lines 291-297, the radius in hundredths
Cylinder(columns, row, color, name) ==
    [from |-> Field(columns, row, "LIGCOO"), to |-> Field(columns, row, "PROTCOO"),
     color |-> color, radius |-> <<10>>, name |-> name]

\* the header row taken for a record
RecordsWithHeader(interaction_list) == interaction_list

\* line 287: the records of a table are its rows after the header row
Records(interaction_list) == Tail(interaction_list)

\* lines 286-298 for one table with a header and at least one record
draw_table(acc, interaction_type, interaction_list) ==
    LET columns == interaction_list[1]
        rows == Records(interaction_list)
        color == color_map[interaction_type]
    IN  IF ~HasColumn(columns, "LIGCOO") \/ ~HasColumn(columns, "PROTCOO")
        THEN [acc EXCEPT !.exc = "KeyError"]
        ELSE IF ~HasColumn(columns, "RESNR")
        THEN [acc EXCEPT !.exc = "KeyError",
                         !.shapes = Append(@, Cylinder(columns, rows[1], color,
                                                       interaction_type))]
        ELSE [acc EXCEPT
                !.shapes = @ \o [j \in 1..Len(rows) |->
                                    Cylinder(columns, rows[j], color, interaction_type)],
                !.residues = @ \o [j \in 1..Len(rows) |->
                                    Field(columns, rows[j], "RESNR")]]

\* lines 282-298: the loop over the items of the interaction dictionary, which
\* ends at the first exception
RECURSIVE draw_interactions(_, _, _)
draw_interactions(items, i, acc) ==
    IF i > Len(items) \/ acc.exc /= NoExc
    THEN acc
    ELSE LET interaction_type == items[i][1]
             interaction_list == items[i][2]
         IN  IF interaction_type \notin DOMAIN color_map
             THEN [acc EXCEPT !.exc = "KeyError"]
             ELSE IF Len(interaction_list) = 1
             THEN draw_interactions(items, i + 1, acc)
             ELSE IF Len(interaction_list) = 0
             THEN [acc EXCEPT !.exc = "IndexError"]
             ELSE draw_interactions(items, i + 1,
                      draw_table(acc, interaction_type, interaction_list))

\* lines 300-310: the two ball-and-stick representations of the residues; the
\* selection string is the join of one term per residue, empty for no residue
add_ball_and_stick(v, residues) ==
    [v EXCEPT !.comps[1].reprs = @ \o
        <<[type |-> "ball+stick", sele |-> "({r} and not _H)", of |-> residues,
           params |-> "colorScheme=chainindex, aspectRatio=1.5"],
          [type |-> "ball+stick", sele |-> "({r} and ((_O) or (_N) or (_S)))",
           of |-> residues, params |-> "colorScheme=element, aspectRatio=1.5"]>>]

\* the center pane's viewer left open
close_center_skipped(st) == st

\* lines 251-252
close_center(st) ==
    IF st.app.center /= PyNone
    THEN [st EXCEPT !.widgets[st.app.center[1]].open = FALSE,
                    !.events = Append(@, <<"close", st.app.center[1]>>)]
    ELSE st

\* lines 255-259: the new viewer becomes the center pane and gets the protein
create_center(st, a) ==
    LET id == Len(st.widgets) + 1
    IN  [st EXCEPT
            !.widgets = Append(@,
                add_representation(
                    add_component(NGLWidget("860px"), a.protein_filepath,
                                  a.protein_file_extension, <<>>),
                    0, "cartoon", "all", <<>>)),
            !.app = [center |-> PyInt(id)],
            !.events = Append(@, <<"create", id>>)]

\* lines 268-278: the list position the handler reads for the selected pose
pose_index(change) == change["new"][1]

\* lines 262-310 on the viewer in the center pane
populate_center(st, a, change) ==
    LET id == st.app.center[1]
        v == st.widgets[id]
        affinities == AffinityLabels(a.list_docking_poses_affinities)
    IN  IF ~IsInt(change["new"])
        THEN [st EXCEPT !.exc = "TypeError"]
        ELSE LET k == pose_index(change)
             IN  IF ~PyInRange(a.list_docking_poses_filepaths, k)
                 THEN [st EXCEPT !.exc = "IndexError"]
                 ELSE LET lig == add_component(v, PyGet(a.list_docking_poses_filepaths, k),
                                               a.docking_poses_file_extension,
                                               DefaultReprs(1))
                      IN  IF ~PyInRange(affinities, k)
                          THEN [st EXCEPT !.widgets[id] = lig, !.exc = "IndexError"]
                          ELSE LET lab == center(add_label(lig, 1, PyGet(affinities, k)),
                                                 <<"component", 1>>)
                               IN  IF ~PyInRange(a.list_docking_poses_plip_dicts, k)
                                   THEN [st EXCEPT !.widgets[id] = lab,
                                                   !.exc = "IndexError"]
                                   ELSE LET drawn == draw_interactions(
                                                PyGet(a.list_docking_poses_plip_dicts, k), 1,
                                                [shapes |-> <<>>, residues |-> <<>>,
                                                 exc |-> NoExc])
                                            withShapes == [lab EXCEPT !.shapes = drawn.shapes]
                                        IN  IF drawn.exc /= NoExc
                                            THEN [st EXCEPT !.widgets[id] = withShapes,
                                                            !.exc = drawn.exc]
                                            ELSE [st EXCEPT !.widgets[id] =
                                                     add_ball_and_stick(withShapes,
                                                                        drawn.residues)]

\* a handler that replaces the center pane's viewer only by a complete one
interactions_on_selection_change_atomic(st, a, change) ==
    IF ~Effective(change)
    THEN [st EXCEPT !.updated = FALSE]
    ELSE LET r == populate_center(
                      create_center(close_center([st EXCEPT !.exc = NoExc,
                                                            !.updated = TRUE]), a),
                      a, change)
         IN  IF r.exc = NoExc THEN r ELSE [st EXCEPT !.exc = r.exc, !.updated = TRUE]

\* lines 248-310: the handler of interactions(), on st = the widgets, the
\* layout and the event log
interactions_on_selection_change(st, a, change) ==
    IF ~Effective(change)
    THEN [st EXCEPT !.updated = FALSE]
    ELSE populate_center(
             create_center(close_center([st EXCEPT !.exc = NoExc, !.updated = TRUE]), a),
             a, change)

-----------------------------------------------------------------------------
(* The arguments of the calls *)

HeaderA == <<"RESNR", "LIGCOO", "PROTCOO">>

HeaderB == <<"LIGCOO", "PROTCOO", "RESNR">>

\* interaction dictionaries, each the sequence of its (type, table) items: with
\* records of several types, with header rows only, with one record, with no
\* RESNR column, with an unknown type, with a table that has no header row
PlipChoices ==
    << << <<"hydrophobic", <<HeaderA, <<101, 11, 21>>, <<102, 12, 22>>>>>>,
          <<"hbond", <<HeaderB, <<13, 23, 103>>>>>>,
          <<"metal", <<HeaderA>>>> >>,
       << <<"hbond", <<HeaderA>>>>,
          <<"saltbridge", <<HeaderB>>>> >>,
       << <<"saltbridge", <<HeaderA, <<102, 17, 27>>>>>> >>,
       << <<"waterbridge", <<<<"LIGCOO", "PROTCOO">>, <<16, 26>>>>>> >>,
       << <<"halogen", <<HeaderB, <<14, 24, 104>>>>>>,
          <<"covalent", <<HeaderA>>>> >>,
       << <<"pication", <<HeaderA, <<105, 15, 25>>>>>>,
          <<"pistacking", <<>>>> >> >>

\* the residues of the protein
ProteinResidues == {101, 102, 103, 104, 105, 106}

PoseFiles(n) == [i \in 1..n |-> <<"pose", i>>]

PoseLabels(n) == [i \in 1..n |-> <<"label", i>>]

PoseAffinities(n) == [i \in 1..n |-> 0 - (6 + i)]

\* the dictionaries of n poses: the choices from one of them on, in their
\* order or in the reverse order
PosePlips(n, offset, reverse) ==
    [i \in 1..n |->
        PlipChoices[((offset + (i - 1) * (IF reverse THEN Len(PlipChoices) - 1 ELSE 1))
                     % Len(PlipChoices)) + 1]]

ProteinArgs ==
    [input_type : {"pdb_code"}, input_value : {"3w32"},
     nDefault : 1..MaxDefaultReprs,
     output_image_filename : {PyNone, <<"protein.png">>}]
    \cup
    [input_type : {"pdb", "cif"}, input_value : {"protein.pdb", "protein.cif"},
     nDefault : 1..MaxDefaultReprs,
     output_image_filename : {PyNone, <<"protein.png">>}]

BindingSiteArgs ==
    [input_type : {"pdb_code"}, input_value : {"3w32"},
     nDefault : 1..MaxDefaultReprs, ccp4_filepath : {"pocket.ccp4"}]
    \cup
    [input_type : {"pdb"}, input_value : {"protein.pdb"},
     nDefault : 1..MaxDefaultReprs, ccp4_filepath : {"pocket.ccp4"}]

DockingArgs ==
    {[protein_filepath |-> <<"file", "protein.pdb">>,
      protein_file_extension |-> "pdb",
      list_docking_poses_filepaths |-> PoseFiles(n),
      docking_poses_file_extension |-> "pdbqt",
      list_docking_poses_labels |-> PoseLabels(n),
      list_docking_poses_affinities |-> PoseAffinities(n),
      nDefault |-> d] : n \in 1..MaxPoses, d \in 1..MaxDefaultReprs}

InteractionsArgs ==
    {[protein_filepath |-> <<"file", "protein.pdb">>,
      protein_file_extension |-> "pdb",
      list_docking_poses_filepaths |-> PoseFiles(n),
      docking_poses_file_extension |-> "pdbqt",
      list_docking_poses_labels |-> PoseLabels(n),
      list_docking_poses_affinities |-> PoseAffinities(n),
      list_docking_poses_plip_dicts |-> PosePlips(n, o, r)] :
        n \in 1..MaxPoses, o \in 0..(Len(PlipChoices) - 1), r \in BOOLEAN}

ArgsOf(f) ==
    CASE f = "protein" -> ProteinArgs
      [] f = "binding_site" -> BindingSiteArgs
      [] f = "docking" -> DockingArgs
      [] f = "interactions" -> InteractionsArgs

-----------------------------------------------------------------------------
(* The state machine *)

NoApp == [center |-> PyNone]

Init ==
    /\ fn \in {"protein", "binding_site", "docking", "interactions"}
    /\ args \in ArgsOf(fn)
    /\ pc = "called"
    /\ exc = NoExc
    /\ viewer = NoViewer
    /\ widgets = <<>>
    /\ app = NoApp
    /\ events = <<>>
    /\ selector = NoSelector
    /\ pending = <<>>
    /\ clicks = 0
    /\ updates = 0

\* lines 25-59
protein ==
    /\ fn = "protein" /\ pc = "called"
    /\ viewer' = protein_viewer(args.input_type, args.input_value, args.nDefault,
                                args.output_image_filename)
    /\ pc' = "returned"
    /\ UNCHANGED <<fn, args, exc, widgets, app, events, selector, pending, clicks,
                   updates>>

\* lines 62-84
binding_site ==
    /\ fn = "binding_site" /\ pc = "called"
    /\ LET r == binding_site_result(args)
       IN  /\ viewer' = r.viewer
           /\ exc' = r.exc
           /\ pc' = IF r.exc = NoExc THEN "returned" ELSE "raised"
    /\ UNCHANGED <<fn, args, widgets, app, events, selector, pending, clicks,
                   updates>>

\* lines 87-187: the viewer is built, the selection list created and the
\* handler run once by hand on the first pose
docking ==
    /\ fn = "docking" /\ pc = "called"
    /\ LET r == docking_on_selection_change(docking_viewer(args), args,
                                            Change("value", PyInt(1), PyNone))
       IN  /\ viewer' = r.viewer
           /\ exc' = r.exc
           /\ pc' = IF r.exc = NoExc THEN "returned" ELSE "raised"
    /\ selector' = Select(Options(args.list_docking_poses_labels),
                          Rows(args.list_docking_poses_filepaths))
    /\ UNCHANGED <<fn, args, widgets, app, events, pending, clicks, updates>>

\* lines 190-316: the selection list and the layout are created and the
\* handler run once by hand
interactions ==
    /\ fn = "interactions" /\ pc = "called"
    /\ LET r == interactions_on_selection_change(
                    [widgets |-> <<>>, app |-> NoApp, events |-> <<>>,
                     exc |-> NoExc, updated |-> FALSE],
                    args, Change("value", PyInt(0), PyNone))
       IN  /\ widgets' = r.widgets
           /\ app' = r.app
           /\ events' = r.events
           /\ exc' = r.exc
           /\ pc' = IF r.exc = NoExc THEN "returned" ELSE "raised"
    /\ selector' = Select(Options(args.list_docking_poses_labels),
                          Rows(args.list_docking_poses_filepaths))
    /\ UNCHANGED <<fn, args, viewer, pending, clicks, updates>>

\* the user clicks an entry of the list: lines 184 and 313 registered the
\* handler for every trait of the selector
Click ==
    /\ fn \in {"docking", "interactions"} /\ pc = "returned"
    /\ pending = <<>>
    /\ clicks < MaxClicks
    /\ \E i \in 1..Len(selector.options) :
          /\ selector' = Clicked(selector, i)
          /\ pending' = Notifications(selector, Clicked(selector, i))
    /\ clicks' = clicks + 1
    /\ updates' = 0
    /\ UNCHANGED <<fn, args, pc, exc, viewer, widgets, app, events>>

\* one notification reaches the handler of docking(); an exception ends the
\* delivery of the click's notifications
DockingNotify ==
    /\ fn = "docking" /\ pending /= <<>>
    /\ LET r == docking_on_selection_change(viewer, args, Head(pending))
       IN  /\ viewer' = r.viewer
           /\ exc' = IF r.updated THEN r.exc ELSE exc
           /\ pending' = IF r.updated /\ r.exc /= NoExc THEN <<>> ELSE Tail(pending)
           /\ updates' = IF r.updated THEN updates + 1 ELSE updates
    /\ UNCHANGED <<fn, args, pc, widgets, app, events, selector, clicks>>

\* one notification reaches the handler of interactions()
InteractionsNotify ==
    /\ fn = "interactions" /\ pending /= <<>>
    /\ LET r == interactions_on_selection_change(
                    [widgets |-> widgets, app |-> app, events |-> events,
                     exc |-> exc, updated |-> FALSE],
                    args, Head(pending))
       IN  /\ widgets' = r.widgets
           /\ app' = r.app
           /\ events' = r.events
           /\ exc' = r.exc
           /\ pending' = IF r.updated /\ r.exc /= NoExc THEN <<>> ELSE Tail(pending)
           /\ updates' = IF r.updated THEN updates + 1 ELSE updates
    /\ UNCHANGED <<fn, args, pc, viewer, selector, clicks>>

Next ==
    \/ protein
    \/ binding_site
    \/ docking
    \/ interactions
    \/ Click
    \/ DockingNotify
    \/ InteractionsNotify

Spec == Init /\ [][Next]_vars

-----------------------------------------------------------------------------
(* Properties of protein() and binding_site() *)

Returned(f) == fn = f /\ pc = "returned"

\* the decoration protein() gives the structure of the given input
ExpectedProteinReprs(a) ==
    IF a.input_type = "pdb_code"
    THEN [i \in 1..(a.nDefault + 1) |->
            IF i <= a.nDefault
            THEN [type |-> "default", sele |-> "default", of |-> <<i>>, params |-> ""]
            ELSE [type |-> "ball+stick", sele |-> "hetero and not water",
                  of |-> <<>>, params |-> ""]]
    ELSE <<[type |-> "cartoon", sele |-> "protein", of |-> <<>>, params |-> ""],
           [type |-> "ball+stick", sele |-> "hetero and not water", of |-> <<>>,
            params |-> ""]>>

ExpectedProteinComponent(a) ==
    [file |-> IF a.input_type = "pdb_code" THEN <<"pdbid", a.input_value>>
              ELSE <<"file", a.input_value>>,
     ext |-> IF a.input_type = "pdb_code" THEN "pdb" ELSE a.input_type,
     visible |-> TRUE, labels |-> <<>>, reprs |-> ExpectedProteinReprs(a)]

(* C6: the viewer protein() returns holds the structure of either input kind
   with a ball+stick representation of 'hetero and not water' added last and
   is centered on the protein; a local file has a cartoon of the protein in
   place of the default representation; an image is rendered, displayed and
   downloaded, in this order, exactly if output_image_filename is not None,
   and the rest of the viewer does not depend on the image. *)
C6_ProteinViewer ==
    Returned("protein") =>
        /\ viewer.comps = <<ExpectedProteinComponent(args)>>
        /\ viewer.centered = <<"protein">>
        /\ viewer.open /\ viewer.shapes = <<>>
        /\ (args.output_image_filename = PyNone => viewer.image = <<>>)
        /\ (args.output_image_filename /= PyNone =>
               viewer.image = <<<<"render_image">>, <<"_display_image">>,
                                <<"download_image", args.output_image_filename[1]>>>>)

C6_Witness ==
    /\ Returned("protein")
    /\ args.input_type = "cif"
    /\ args.output_image_filename = <<"protein.png">>
    /\ Len(viewer.image) = 3
    /\ viewer.comps[1].reprs[1].type = "cartoon"

(* C5: binding_site() on a valid protein input and an existing CCP4 file does
   not end in an error: it returns the viewer of protein() for the same input
   with the pocket added as a further component, centered after that. *)
C5_BindingSiteReturns ==
    (fn = "binding_site" /\ pc /= "called") =>
        /\ pc = "returned"
        /\ exc = NoExc
        /\ Len(viewer.comps) = 2
        /\ viewer.comps[1] = ExpectedProteinComponent(args)
        /\ viewer.comps[2].file = <<"file", args.ccp4_filepath>>
        /\ viewer.comps[2].ext = "ccp4"
        /\ viewer.centered = <<"*">>

-----------------------------------------------------------------------------
(* Properties of docking() *)

\* the viewer is at rest: docking() has returned and no notification is on
\* its way to the handler
DockingAtRest == Returned("docking") /\ pending = <<>>

NumPoses == Len(args.list_docking_poses_filepaths)

\* the 1-based list position of the entry selected in the selection list
SelectedPosition == selector.index[1] + 1

(* C1: once docking() has returned and every notification of the clicks so
   far was delivered, exactly one of the pose components 1..n is visible: the
   component whose number is the selected option value, which is the entry
   whose label is selected, was loaded from the pose file at that list
   position and carries its affinity label; the protein, component 0, is
   visible in every state after the return. *)
C1_SelectedPoseVisible ==
    /\ Returned("docking") =>
          /\ Len(viewer.comps) = NumPoses + 1
          /\ viewer.comps[1].visible
          /\ viewer.comps[1].file = args.protein_filepath
    /\ DockingAtRest =>
          /\ selector.value = PyInt(SelectedPosition)
          /\ selector.label = args.list_docking_poses_labels[SelectedPosition]
          /\ \A k \in 1..NumPoses :
                /\ viewer.comps[k + 1].visible <=> (k = SelectedPosition)
                /\ viewer.comps[k + 1].file = args.list_docking_poses_filepaths[k]
                /\ viewer.comps[k + 1].labels =
                      <<<<args.list_docking_poses_affinities[k], " kcal/mol">>>>
          /\ viewer.centered = <<"component", SelectedPosition>>

C1_Witness ==
    /\ DockingAtRest
    /\ NumPoses = 3
    /\ clicks >= 2
    /\ selector.value = PyInt(3)
    /\ viewer.comps[4].visible
    /\ ~viewer.comps[2].visible

IsLicorice(r) == r.type = "licorice"

(* C9: in every state after docking() returns, the protein carries exactly
   one licorice representation (of the residues within radius 6 of the
   selected pose) and every representation it had when it was loaded is still
   there: the update removes nothing but an earlier licorice. *)
C9_OnlyLicoriceReplaced ==
    Returned("docking") =>
        LET reprList == viewer.comps[1].reprs
        IN  /\ Cardinality({i \in 1..Len(reprList) : IsLicorice(reprList[i])}) = 1
            /\ Len(reprList) = args.nDefault + 1
            /\ \A i \in 1..args.nDefault :
                  reprList[i] = [type |-> "default", sele |-> "default",
                                 of |-> <<i>>, params |-> ""]

-----------------------------------------------------------------------------
(* Properties of the handlers' guard *)

\* the view: everything the handlers hide, show, center, add, close or script
view == <<viewer, widgets, app, events>>

(* C7: in docking() and in interactions() the handler receives every trait
   notification of the selection list, and the delivery of a notification
   whose name is not "value", or whose new value equals its old value, leaves
   the view unchanged; the delivery of a "value" notification with a new
   value is the one view update of its click. *)
C7_OnlyValueChangesUpdate ==
    [][pending /= <<>> =>
          LET change == Head(pending)
          IN  IF change.name = "value" /\ change.new /= change.old
              THEN updates = 0 /\ updates' = 1 /\ view' /= view
              ELSE updates' = updates /\ view' = view /\ exc' = exc]_vars

C7_Witness ==
    /\ fn = "interactions"
    /\ pending /= <<>>
    /\ Head(pending).name = "index"
    /\ Head(pending).new /= Head(pending).old
    /\ updates = 1

-----------------------------------------------------------------------------
(* Properties of interactions() *)

\* the viewer in the center pane of the layout
Center == widgets[app.center[1]]

OpenWidgets == {i \in 1..Len(widgets) : widgets[i].open}

(* C8: in every state after interactions() returns there is a single
   visualization widget: exactly one viewer created by the handler is open,
   it is the one in the center pane of the layout, and each earlier viewer
   was closed before its replacement was created. *)
C8_SingleOpenViewer ==
    Returned("interactions") =>
        /\ app.center = PyInt(Len(widgets))
        /\ OpenWidgets = {Len(widgets)}
        /\ Len(events) = 2 * Len(widgets) - 1
        /\ \A j \in 1..Len(events) :
              events[j] = IF j % 2 = 1 THEN <<"create", (j + 1) \div 2>>
                          ELSE <<"close", j \div 2>>

C8_Witness ==
    /\ Returned("interactions")
    /\ pending = <<>>
    /\ Len(widgets) = 3
    /\ OpenWidgets = {3}

\* the interaction records of a dictionary, in the order of its items: each
\* row after the header row of each table, with its type and its columns
RECURSIVE InteractionRecords(_)
InteractionRecords(items) ==
    IF Len(items) = 0
    THEN <<>>
    ELSE LET table == Head(items)[2]
             rows == IF Len(table) <= 1 THEN <<>>
                     ELSE [j \in 1..(Len(table) - 1) |->
                             [type |-> Head(items)[1], columns |-> table[1],
                              row |-> table[j + 1]]]
         IN  rows \o InteractionRecords(Tail(items))

\* the value a record holds in the named column
ValueOf(rec, column) ==
    rec.row[CHOOSE c \in 1..Len(rec.columns) : rec.columns[c] = column]

\* the list position of the pose whose file is shown in the viewer v
DisplayedPose(v) == v.comps[2].file[2]

DisplayedRecords(v) ==
    InteractionRecords(args.list_docking_poses_plip_dicts[DisplayedPose(v)])

\* the last effective selection change ran to its end
ChangeCompleted == Returned("interactions") /\ exc = NoExc

(* C3: after an effective selection change that ran to its end, the viewer
   holds exactly one cylinder per interaction record of the displayed pose's
   dictionary, in the order of the records: from the record's ligand
   coordinate to its protein coordinate, named after the record's type and
   colored with the color-map entry of that type; a table that holds only the
   header row contributes none, so the cylinders are as many as the records. *)
C3_OneCylinderPerRecord ==
    ChangeCompleted =>
        LET recs == DisplayedRecords(Center)
        IN  /\ Len(Center.shapes) = Len(recs)
            /\ \A j \in 1..Len(recs) :
                  /\ Center.shapes[j].name = recs[j].type
                  /\ Center.shapes[j].color = color_map[recs[j].type]
                  /\ Center.shapes[j].from = ValueOf(recs[j], "LIGCOO")
                  /\ Center.shapes[j].to = ValueOf(recs[j], "PROTCOO")

C3_Witness ==
    /\ ChangeCompleted
    /\ clicks >= 1
    /\ pending = <<>>
    /\ Len(Center.shapes) = 3
    /\ Center.shapes[3].name = "hbond"
    /\ Center.shapes[3].from = 13
    /\ \E i \in 1..Len(args.list_docking_poses_plip_dicts[DisplayedPose(Center)]) :
          Len(args.list_docking_poses_plip_dicts[DisplayedPose(Center)][i][2]) = 1

\* an interaction dictionary the handler can draw: known types, and tables
\* with a header row that names the three columns
WellFormed(items) ==
    \A i \in 1..Len(items) :
        /\ items[i][1] \in DOMAIN color_map
        /\ Len(items[i][2]) >= 1
        /\ \A c \in {"LIGCOO", "PROTCOO", "RESNR"} :
              \E j \in 1..Len(items[i][2][1]) : items[i][2][1][j] = c

WellFormedArgs ==
    \A i \in 1..Len(args.list_docking_poses_plip_dicts) :
        WellFormed(args.list_docking_poses_plip_dicts[i])

(* C2: pose files, labels, affinities and interaction dictionaries are paired
   by position: once interactions() has returned and the notifications of the
   clicks so far were delivered, the last change succeeded and the ligand
   file in the viewer, its affinity label and the dictionary drawn are those
   at the list position of the label selected in the selection list. *)
C2_SelectedPoseShown ==
    (Returned("interactions") /\ pending = <<>> /\ WellFormedArgs) =>
        /\ exc = NoExc
        /\ Len(Center.comps) = 2
        /\ Center.comps[2].file = args.list_docking_poses_filepaths[SelectedPosition]
        /\ Center.comps[2].labels =
              <<<<args.list_docking_poses_affinities[SelectedPosition], " kcal/mol">>>>
        /\ LET recs == InteractionRecords(
                           args.list_docking_poses_plip_dicts[SelectedPosition])
           IN  /\ Len(Center.shapes) = Len(recs)
               /\ \A j \in 1..Len(recs) : Center.shapes[j].name = recs[j].type

\* the ball-and-stick representations of the protein in the viewer v
BallAndSticks(v) ==
    {i \in 1..Len(v.comps[1].reprs) : v.comps[1].reprs[i].type = "ball+stick"}

\* the residues a ball-and-stick representation of lines 305-310 shows: those
\* its selection string names; the empty selection string of NGL's selection
\* language selects the whole structure
SelectedResidues(r) ==
    IF Len(r.of) = 0 THEN ProteinResidues ELSE {r.of[i] : i \in 1..Len(r.of)}

Highlighted(v) ==
    UNION {SelectedResidues(v.comps[1].reprs[i]) : i \in BallAndSticks(v)}

(* C4: after an effective selection change that ran to its end, the residues
   of the protein shown as ball-and-stick are exactly the residues of the
   interaction records drawn for the displayed pose: the residue list holds
   one entry per cylinder and nothing of an earlier pose, and a pose with no
   interaction record highlights no residue. *)
C4_HighlightedResidues ==
    ChangeCompleted =>
        LET recs == DisplayedRecords(Center)
            resnr == [j \in 1..Len(recs) |-> ValueOf(recs[j], "RESNR")]
        IN  /\ Cardinality(BallAndSticks(Center)) = 2
            /\ \A i \in BallAndSticks(Center) :
                  /\ Len(Center.comps[1].reprs[i].of) = Len(Center.shapes)
                  /\ \A j \in 1..Len(recs) : Center.comps[1].reprs[i].of[j] = resnr[j]
            /\ Highlighted(Center) = {resnr[j] : j \in 1..Len(recs)}

\* the step delivers a "value" notification with a new value to the handler
\* of interactions(), and the handler ends in an exception
FailedChange ==
    /\ Returned("interactions")
    /\ pending /= <<>>
    /\ Head(pending).name = "value"
    /\ Head(pending).new /= Head(pending).old
    /\ exc' /= NoExc

(* C10 as claimed: an effective selection change that fails part-way leaves
   the display as it was, the viewer shown before still open in the center
   pane with its ligand, cylinders and highlighted residues. *)
C10_FailedChangeKeepsDisplay ==
    [][FailedChange => (app' = app /\ widgets' = widgets)]_vars

(* C10, amended: an effective selection change that fails part-way does not
   keep the display: the viewer shown before has been closed (and is
   otherwise as it was), and the center pane holds a new, open viewer with
   the protein as a cartoon, the ligand if its list position exists, the
   cylinders drawn before the failure (at most those of the pose's records)
   and no highlighted residue. *)
C10_FailedChangeReplacesDisplay ==
    [][FailedChange =>
          LET old == app.center[1]
              new == Len(widgets) + 1
          IN  /\ Len(widgets') = new
              /\ app'.center = PyInt(new)
              /\ \A i \in 1..Len(widgets) :
                    widgets'[i] = [widgets[i] EXCEPT !.open = FALSE]
              /\ widgets[old].open
              /\ widgets'[new].open
              /\ widgets'[new].comps[1].file = args.protein_filepath
              /\ widgets'[new].comps[1].reprs =
                    <<[type |-> "cartoon", sele |-> "all", of |-> <<>>, params |-> ""]>>
              /\ Len(widgets'[new].comps) \in {1, 2}
              /\ Len(widgets'[new].comps) = 1 => widgets'[new].shapes = <<>>
              /\ Len(widgets'[new].comps) = 2 =>
                    LET recs == DisplayedRecords(widgets'[new])
                    IN  /\ Len(widgets'[new].shapes) <= Len(recs)
                        /\ \A j \in 1..Len(widgets'[new].shapes) :
                              widgets'[new].shapes[j].name = recs[j].type]_vars

C10_Witness ==
    /\ Returned("interactions")
    /\ exc = "KeyError"
    /\ Len(widgets) = 2
    /\ ~widgets[1].open
    /\ Len(Center.shapes) = 1
    /\ Center.shapes[1].name = "halogen"

=============================================================================
